---- MODULE Spec2Model ----
(***************************************************************************)
(* Model of pyvmr's download engine (src/src/pyvmr/download.py):           *)
(* DownloadManager.download, _download_with_progress, _handle_extraction   *)
(* and download_batch, over a file system holding, per destination, the    *)
(* partial file <destination>.part, the destination file and the           *)
(* extraction directory.  File contents are sequences of bytes.            *)
(***************************************************************************)
EXTENDS Integers, Sequences, FiniteSets, TLC

(* ------------------------------ bounds --------------------------------- *)
\* length in bytes of the file the server holds for every URL
SrcLen == 2
\* max_retries is drawn from 0..MaxRetriesBound
MaxRetriesBound == 3
\* number of download() calls a caller makes in one run of Spec
MaxCalls == 2
\* no partial file grows beyond DiskCap bytes: the disk is full then
DiskCap == 4
\* download_batch is called with 1..MaxItems requests
MaxItems == 3
\* under SpecBatch max_retries is drawn from 0..MaxBatchRetries
MaxBatchRetries == 2
\* the manager shared by two concurrent calls has max_retries up to RaceRetries
RaceRetries == 2
\* filter_models is given lists of up to MaxModels models
MaxModels == 3
\* the catalog clock runs from 0 to MaxClock
MaxClock == 2
\* cache_ttl in ticks of the catalog clock
CacheTtl == 1
\* the catalog server publishes the versions 1..MaxVersion of its data
MaxVersion == 2
\* number of CatalogManager.get_* calls in one run of SpecCatalog
MaxGets == 3

(* ------------------------------ values --------------------------------- *)
NoFile == <<-1>>        \* the path does not exist (no byte is -1)
None == "None"          \* Python's None, where a string is expected
\* no response received: none requested yet, or requests.get raised
NoStatus == 0
NoRange == -1           \* the request carries no Range header
NoProgress == <<-1, -1>> \* on_progress has not been called
NoCount == NoProgress[1] \* on_progress has not been called in this call
NoPath == <<"none", 0>> \* no path was returned

\* the bytes of the remote file: distinct, so that a misplaced byte shows
Source == [k \in 1..SrcLen |-> k]

Min(a, b) == IF a < b THEN a ELSE b
Take(s, n) == SubSeq(s, 1, Min(n, Len(s)))
Drop(s, n) == SubSeq(s, n + 1, Len(s))

\* destinations; a destination and its URL are identified
Paths == 1..MaxItems
\* file_path.suffix.lower() == ".zip": odd destinations are named *.zip,
\* even ones *.pdf
IsZip(p) == p % 2 = 1

\* expected_size as the code reads it: 0 stands for None and for 0, which
\* every test of it (`if expected_size`, `elif expected_size`) treats alike
\* callers pass no size, the size of the remote file, or a stale, larger one
ExpectedSizes == {0, SrcLen, SrcLen + 1}

VARIABLES
    max_retries,      \* self.max_retries
    chunk_size,       \* self.chunk_size
    part,             \* part[p]: contents of <p>.part, or NoFile
    dest,             \* dest[p]: contents of the destination p, or NoFile
    extracted,        \* extracted[p]: the extraction directory of p holds the archive's contents
    pc,               \* position of the single thread of control
    calls,            \* download() calls made by the caller so far
    cur,              \* arguments of the running download() call
    attempt,          \* loop variable of download()
    last_error,       \* last_error of download()
    n_requests,       \* requests.get calls made by the running download() call
    io_failed,        \* an attempt of the running call ended in an IOError that is no RequestException
    sleeps,           \* arguments of time.sleep in download(), as multiples of retry_delay
    range_hdr,        \* offset of the Range header of the last request, or NoRange
    last_status,      \* status of the response to the last request, or NoStatus
    response,         \* status code and content-length of the running attempt's response
    resume_pos,       \* resume_pos of the running attempt
    total_size,       \* total_size of the running attempt
    bytes_downloaded, \* bytes_downloaded of the running attempt
    stream,           \* bytes of the response body not yet yielded by iter_content
    progress,         \* arguments of the last on_progress call of the running attempt
    reported,         \* first argument of the last on_progress call of the running download() call
    outcome,          \* how the last download() call ended, or NoOutcome
    total,            \* download_batch: len(downloads)
    extract_all,      \* download_batch: its extract argument
    delay,            \* download_batch: its delay argument (0, or 1 for any positive delay)
    on_file_complete, \* download_batch: "none" (no callback), "returns" or "raises"
    idx,              \* download_batch: items dealt with so far (the loop variable i)
    results,          \* download_batch: results, NoPath standing for None
    item_log,         \* download_batch: how the download() call of each item ended
    callbacks,        \* download_batch: arguments of the on_file_complete calls
    batch_sleeps,     \* download_batch: number of time.sleep(delay) calls
    fmt,              \* the frame of a format_size call: position, argument, size_bytes, unit, result
    cat,              \* a CatalogManager, its disk cache, the catalog server and the clock
    flt,              \* the frame of a filter_models call: position, arguments, models left, result
    race              \* two concurrent download() calls: their frames, and the files they work on

\* what no method of DownloadManager assigns: its configuration, and the
\* frame of the module-level function format_size
\* the state of the other components of the package
otherVars == <<fmt, cat, flt, race>>
cfgVars == <<max_retries, chunk_size, otherVars>>
batchVars == <<total, extract_all, delay, on_file_complete, idx, results, item_log,
               callbacks, batch_sleeps>>
\* what no step inside download() changes
outerVars == <<max_retries, chunk_size, otherVars, calls, cur, total, extract_all, delay,
               on_file_complete, idx, results, item_log, callbacks, batch_sleeps>>
fsVars == <<part, dest, extracted>>
loopVars == <<attempt, last_error, io_failed, sleeps>>
localVars == <<response, resume_pos, total_size, bytes_downloaded, stream>>
vars == <<max_retries, chunk_size, part, dest, extracted, pc, calls, cur, attempt,
          last_error, n_requests, io_failed, sleeps, range_hdr, last_status, response, resume_pos,
          total_size, bytes_downloaded, stream, progress, reported, outcome, total, extract_all, delay,
          on_file_complete, idx, results, item_log, callbacks, batch_sleeps, fmt, cat, flt, race>>
\* the state of DownloadManager and of its callers
downloadVars == <<max_retries, chunk_size, fsVars, pc, calls, cur, loopVars, n_requests,
                  range_hdr, last_status, localVars, progress, reported, outcome, batchVars>>

NoCall == [path |-> 0, expected_size |-> 0, extract |-> FALSE]
NoResponse == [status |-> 0, content_length |-> 0]
NoResult == <<-1, "">>
NoSize == [mant |-> 0, exp |-> 0]
NoFormat == [pc |-> "idle", arg |-> NoSize, size_bytes |-> NoSize, unit |-> 0,
             result |-> NoResult]

\* the catalog resources: "projects" is loaded by get_models, which also needs
\* "file_sizes", loaded by get_file_sizes
Resources == {"projects", "file_sizes"}
NoData == <<>>                            \* self._models is None
NoCache == [data |-> NoData, time |-> -1] \* no cache file, or no entry in cache_meta.json
NoGet == [name |-> "", force |-> FALSE, fetched |-> {}, raised |-> FALSE, ret |-> NoData]
\* CatalogManager(cache_dir) on an empty cache directory (catalog.py, lines 43-56)
NewCatalog == [mem |-> [r \in Resources |-> NoData],
               disk |-> [r \in Resources |-> NoCache],
               now |-> 0, server |-> 1, gets |-> 0, requests |-> 0, last |-> NoGet]

\* filter_models not called
NoFilter == [pc |-> "idle", models |-> <<>>, species |-> <<>>, rest |-> <<>>,
             result |-> <<>>]

\* the two threads that call download() at the same time
Threads == {1, 2}
\* the frame of a thread that has not called download()
NoThread == [pc |-> "idle", path |-> 0, attempt |-> 0, last_error |-> None,
             ranged |-> FALSE, resume_pos |-> 0, stream |-> <<>>, mode |-> "",
             fd |-> 0, off |-> 0, bytes_downloaded |-> 0]
\* a file system without files (files: the contents, by inode; part, dest:
\* the inode a name stands for, 0 when the name does not exist) and two
\* threads outside download()
NoRace == [files |-> <<>>, part |-> [p \in Paths |-> 0], dest |-> [p \in Paths |-> 0],
           th |-> [t \in Threads |-> NoThread]]

NoOutcome == [kind |-> None, why |-> "", url |-> 0, attempts |-> 0, last |-> None,
              path |-> NoPath]

\* the state after DownloadManager(max_retries=retries, chunk_size=chunk),
\* nothing downloaded yet (lines 45-49)
Constructed(retries, chunk) ==
    /\ max_retries = retries
    /\ chunk_size = chunk
    /\ part = [p \in Paths |-> NoFile]
    /\ dest = [p \in Paths |-> NoFile]
    /\ extracted = [p \in Paths |-> FALSE]
    /\ pc = "idle"
    /\ calls = 0
    /\ cur = NoCall
    /\ attempt = 0
    /\ last_error = None
    /\ n_requests = 0
    /\ io_failed = FALSE
    /\ sleeps = <<>>
    /\ range_hdr = NoRange
    /\ last_status = NoStatus
    /\ response = NoResponse
    /\ resume_pos = 0
    /\ total_size = 0
    /\ bytes_downloaded = 0
    /\ stream = <<>>
    /\ progress = NoProgress
    /\ reported = NoCount
    /\ outcome = NoOutcome
    /\ total = 0
    /\ extract_all = FALSE
    /\ delay = 0
    /\ on_file_complete = "none"
    /\ idx = 0
    /\ results = <<>>
    /\ item_log = <<>>
    /\ callbacks = <<>>
    /\ batch_sleeps = 0
    /\ fmt = NoFormat
    /\ cat = NewCatalog
    /\ flt = NoFilter
    /\ race = NoRace

Init == \E retries \in 0..MaxRetriesBound, chunk \in {1, SrcLen} :
            Constructed(retries, chunk)

\* a manager whose chunks hold a whole file
InitBatch == \E retries \in 0..MaxBatchRetries : Constructed(retries, SrcLen)

(* --------------------------- download() -------------------------------- *)

\* download(url, output_path, expected_size, extract): entry, up to the loop
\* (lines 76-79)
Download(p, size, extract) ==
    /\ cur' = [path |-> p, expected_size |-> size, extract |-> extract]
    /\ attempt' = 0
    /\ last_error' = None
    /\ n_requests' = 0
    /\ io_failed' = FALSE
    /\ sleeps' = <<>>
    /\ range_hdr' = NoRange
    /\ last_status' = NoStatus
    /\ progress' = NoProgress
    /\ reported' = NoCount
    /\ outcome' = NoOutcome
    /\ pc' = "loop"
    /\ UNCHANGED <<cfgVars, fsVars, localVars>>

\* a caller invokes download() for the destination 1 (an archive, *.zip)
CallDownload ==
    /\ pc = "idle"
    /\ calls' = calls + 1
    /\ \E size \in ExpectedSizes, extract \in BOOLEAN : Download(1, size, extract)
    /\ UNCHANGED batchVars

\* the caller repeats its request after the call has ended
CallDownloadAgain ==
    /\ pc = "done"
    /\ total = 0
    /\ calls < MaxCalls
    /\ calls' = calls + 1
    /\ Download(cur.path, cur.expected_size, cur.extract)
    /\ UNCHANGED batchVars

\* _download_with_progress is left, by return or by exception: its locals are gone
ExitAttempt ==
    /\ response' = NoResponse
    /\ resume_pos' = 0
    /\ total_size' = 0
    /\ bytes_downloaded' = 0
    /\ stream' = <<>>

\* the wait made after the last iteration as well
SleepsAfter_AlsoLast(failed) == Append(sleeps, failed + 1)

\* time.sleep(self.retry_delay * (attempt + 1)) unless this was the last
\* iteration (lines 92-93); sleeps holds the multiples of retry_delay
SleepsAfter(failed) ==
    IF failed < max_retries - 1 THEN Append(sleeps, failed + 1) ELSE sleeps

\* an exception the except clause of download() does not catch leaves download()
Propagate(kind, why) ==
    /\ ExitAttempt
    /\ outcome' = [kind |-> kind, why |-> why, url |-> cur.path,
                   attempts |-> 0, last |-> None, path |-> NoPath]
    /\ pc' = "done"
    /\ UNCHANGED loopVars

\* the except clause as `except requests.RequestException`: an IOError leaves
\* download()
CatchAndRetry_IOErrorEscapes(e) ==
    IF e = "IOError"
    THEN /\ Propagate("IOError", "")
         /\ progress' = NoProgress
         /\ reported' = reported
    ELSE /\ ExitAttempt
         /\ progress' = NoProgress
         /\ reported' = reported
         /\ last_error' = e
         /\ io_failed' = io_failed
         /\ sleeps' = SleepsAfter(attempt)
         /\ attempt' = attempt + 1
         /\ pc' = "loop"
         /\ outcome' = outcome

\* `except (requests.RequestException, IOError) as e:` and the next iteration
\* (lines 90-93)
CatchAndRetry(e) ==
    /\ ExitAttempt
    /\ progress' = NoProgress
    /\ reported' = reported
    /\ last_error' = e
    /\ io_failed' = (io_failed \/ e = "IOError")
    /\ sleeps' = SleepsAfter(attempt)
    /\ attempt' = attempt + 1
    /\ pc' = "loop"
    /\ outcome' = outcome

\* the result kept in a variable and the loop not left
ReturnPath_KeepsLooping(path) ==
    /\ ExitAttempt
    /\ outcome' = [kind |-> "ok", why |-> "", url |-> cur.path,
                   attempts |-> 0, last |-> None, path |-> path]
    /\ pc' = "loop"
    /\ attempt' = attempt + 1
    /\ UNCHANGED <<last_error, io_failed, sleeps>>

\* `return self._download_with_progress(...)` (line 82)
ReturnPath(path) ==
    /\ ExitAttempt
    /\ outcome' = [kind |-> "ok", why |-> "", url |-> cur.path,
                   attempts |-> 0, last |-> None, path |-> path]
    /\ pc' = "done"
    /\ UNCHANGED loopVars

\* the loop as `range(self.max_retries + 1)`
LoopContinues_OffByOne == attempt <= max_retries

\* the loop body run once before max_retries is looked at
LoopContinues_AtLeastOnce == attempt = 0 \/ attempt < max_retries

\* `for attempt in range(self.max_retries)` has a next iteration (line 80)
LoopContinues == attempt < max_retries

\* the loop is exhausted: raise DownloadError(f"Failed to download {url} after
\* {self.max_retries} attempts: {last_error}") (lines 95-97)
RaiseExhausted ==
    /\ pc = "loop"
    /\ ~LoopContinues
    /\ outcome' = [kind |-> "DownloadError", why |-> "exhausted", url |-> cur.path,
                   attempts |-> max_retries, last |-> last_error, path |-> NoPath]
    /\ pc' = "done"
    /\ UNCHANGED <<outerVars, fsVars, loopVars, n_requests, range_hdr, last_status,
                   localVars, progress, reported>>

(* --------------------- _download_with_progress() ----------------------- *)

\* temp_path.exists(), resume_pos and the Range header (lines 110-116)
TempExists == part[cur.path] # NoFile
ResumePos == IF TempExists THEN Len(part[cur.path]) ELSE 0
\* the range taken to start after the byte at offset resume_pos
RangeHeader_OffByOne == IF TempExists THEN ResumePos + 1 ELSE NoRange

\* headers["Range"] = f"bytes={resume_pos}-" when the partial file exists
RangeHeader == IF TempExists THEN ResumePos ELSE NoRange

\* What requests.get can return to a request with Range offset hdr: the server
\* holds Source and follows HTTP: the full body with 200 (a server may ignore
\* Range), the rest with 206 to a satisfiable range, 416 to an unsatisfiable
\* one, or an error status; content_length 0 stands for no such header.
Responses(hdr) ==
    {[status |-> 200, content_length |-> cl, body |-> Source] : cl \in {0, SrcLen}}
    \cup (IF hdr # NoRange /\ hdr < SrcLen
          THEN {[status |-> 206, content_length |-> cl, body |-> Drop(Source, hdr)] :
                   cl \in {0, SrcLen - hdr}}
          ELSE {})
    \cup (IF hdr # NoRange /\ hdr >= SrcLen
          THEN {[status |-> 416, content_length |-> 0, body |-> <<>>]}
          ELSE {})
    \cup {[status |-> 500, content_length |-> 0, body |-> <<>>]}

\* total_size (lines 135-139)
TotalSize(r, rpos, expected) ==
    IF r.status = 206 THEN r.content_length + rpos
    ELSE IF expected # 0 THEN expected
    ELSE r.content_length

\* open(temp_path, "wb") whatever resume_pos is
Opened_AlwaysTruncates(content, rpos) == <<>>

\* mode = "ab" if resume_pos > 0 else "wb"; open(temp_path, mode) (lines 155-159)
Opened(content, rpos) == IF rpos > 0 THEN content ELSE <<>>

\* the size check as `bytes_downloaded < expected_size`
SizeMismatch_OnlyShort(expected, got) == expected # 0 /\ got < expected

\* `if expected_size and bytes_downloaded != expected_size` (line 176)
SizeMismatch(expected, got) == expected # 0 /\ got # expected

\* temp_path.rename(output_path) (lines 129, 182)
Rename(p) ==
    /\ dest' = [dest EXCEPT ![p] = part[p]]
    /\ part' = [part EXCEPT ![p] = NoFile]

\* one iteration of the loop of download() up to requests.get (lines 80-123)
IssueRequest ==
    /\ pc = "loop"
    /\ LoopContinues
    /\ n_requests' = n_requests + 1
    /\ range_hdr' = RangeHeader
    /\ UNCHANGED outerVars

\* requests.get raises (connection failure, timeout)
RequestFails ==
    /\ IssueRequest
    /\ last_status' = NoStatus
    /\ CatchAndRetry("RequestException")
    /\ UNCHANGED fsVars

\* 416 with the partial file copied to the destination and left in place
ResponseRangeNotSatisfiable_KeepsPartial ==
    /\ IssueRequest
    /\ \E r \in Responses(RangeHeader) :
          /\ r.status = 416
          /\ TempExists
          /\ last_status' = r.status
    /\ dest' = [dest EXCEPT ![cur.path] = part[cur.path]]
    /\ pc' = "extract"
    /\ UNCHANGED <<part, extracted, loopVars, localVars, progress, reported, outcome>>

\* status 416 and the partial file exists: it is promoted (lines 126-130)
ResponseRangeNotSatisfiable ==
    /\ IssueRequest
    /\ \E r \in Responses(RangeHeader) :
          /\ r.status = 416
          /\ TempExists
          /\ last_status' = r.status
    /\ Rename(cur.path)
    /\ pc' = "extract"
    /\ UNCHANGED <<extracted, loopVars, localVars, progress, reported, outcome>>

\* the partial file of ResponseErrorStatus truncated before the status is looked at
ResponseErrorStatus_Truncates ==
    /\ IssueRequest
    /\ \E r \in Responses(RangeHeader) :
          /\ r.status >= 400
          /\ ~(r.status = 416 /\ TempExists)
          /\ last_status' = r.status
    /\ CatchAndRetry("RequestException")
    /\ part' = [part EXCEPT ![cur.path] = <<>>]
    /\ UNCHANGED <<dest, extracted>>

\* response.raise_for_status() raises HTTPError, a RequestException (line 132)
ResponseErrorStatus ==
    /\ IssueRequest
    /\ \E r \in Responses(RangeHeader) :
          /\ r.status >= 400
          /\ ~(r.status = 416 /\ TempExists)
          /\ last_status' = r.status
    /\ CatchAndRetry("RequestException")
    /\ UNCHANGED fsVars

\* 200 or 206: total_size, mode, bytes_downloaded, open(temp_path, mode)
\* (lines 135-159)
ResponseSuccess ==
    /\ IssueRequest
    /\ \E r \in Responses(RangeHeader) :
          /\ r.status \in {200, 206}
          /\ response' = [status |-> r.status, content_length |-> r.content_length]
          /\ last_status' = r.status
          /\ resume_pos' = ResumePos
          /\ total_size' = TotalSize(r, ResumePos, cur.expected_size)
          /\ part' = [part EXCEPT ![cur.path] =
                         Opened(IF TempExists THEN part[cur.path] ELSE <<>>, ResumePos)]
          /\ bytes_downloaded' = ResumePos
          /\ stream' = r.body
    /\ pc' = "stream"
    /\ UNCHANGED <<dest, extracted, loopVars, progress, reported, outcome>>

\* open(temp_path, mode) raises (permissions): no file is created or truncated
OpenFails ==
    /\ IssueRequest
    /\ \E r \in Responses(RangeHeader) :
          /\ r.status \in {200, 206}
          /\ last_status' = r.status
    /\ CatchAndRetry("IOError")
    /\ UNCHANGED fsVars

\* on_progress(len(chunk), total_size): the callback given the chunk's length
ReadChunk_ReportsChunkLength ==
    /\ pc = "stream"
    /\ stream # <<>>
    /\ LET chunk == Take(stream, chunk_size)
           p == cur.path
       IN /\ Len(part[p]) + Len(chunk) <= DiskCap
          /\ part' = [part EXCEPT ![p] = part[p] \o chunk]
          /\ bytes_downloaded' = bytes_downloaded + Len(chunk)
          /\ progress' = <<Len(chunk), total_size>>
          /\ reported' = Len(chunk)
          /\ stream' = Drop(stream, chunk_size)
    /\ UNCHANGED <<outerVars, dest, extracted, pc, loopVars, n_requests,
                   range_hdr, last_status, response, resume_pos, total_size, outcome>>

\* one chunk of iter_content: f.write, bytes_downloaded, on_progress
\* (lines 160-169)
ReadChunk ==
    /\ pc = "stream"
    /\ stream # <<>>
    /\ LET chunk == Take(stream, chunk_size)
           p == cur.path
       IN /\ Len(part[p]) + Len(chunk) <= DiskCap
          /\ part' = [part EXCEPT ![p] = part[p] \o chunk]
          /\ bytes_downloaded' = bytes_downloaded + Len(chunk)
          /\ progress' = <<bytes_downloaded + Len(chunk), total_size>>
          /\ reported' = bytes_downloaded + Len(chunk)
          /\ stream' = Drop(stream, chunk_size)
    /\ UNCHANGED <<outerVars, dest, extracted, pc, loopVars, n_requests,
                   range_hdr, last_status, response, resume_pos, total_size, outcome>>

\* f.write raises (the disk is full, which it is at the latest at DiskCap)
WriteFails ==
    /\ pc = "stream"
    /\ stream # <<>>
    /\ CatchAndRetry("IOError")
    /\ UNCHANGED <<outerVars, fsVars, n_requests, range_hdr, last_status>>

\* iter_content raises: the connection breaks before the end of the body
\* has been signalled
StreamError ==
    /\ pc = "stream"
    /\ CatchAndRetry("RequestException")
    /\ UNCHANGED <<outerVars, fsVars, n_requests, range_hdr, last_status>>

\* the size mismatch raised as an IOError-class exception, which download()
\* catches and retries
StreamEndMismatch_Retried ==
    /\ pc = "stream"
    /\ SizeMismatch(cur.expected_size, bytes_downloaded)
    /\ CatchAndRetry("DownloadError")
    /\ UNCHANGED <<outerVars, fsVars, n_requests, range_hdr, last_status>>

\* iter_content ends, having yielded the whole body or less (a body shorter
\* than announced), bytes_downloaded differs from expected_size:
\* raise DownloadError (lines 176-179)
StreamEndMismatch ==
    /\ pc = "stream"
    /\ SizeMismatch(cur.expected_size, bytes_downloaded)
    /\ Propagate("DownloadError", "size_mismatch")
    /\ UNCHANGED <<outerVars, fsVars, n_requests, range_hdr, last_status, progress, reported>>

\* iter_content ends and the size check passes: rename (lines 176-182)
StreamEndRename ==
    /\ pc = "stream"
    /\ ~SizeMismatch(cur.expected_size, bytes_downloaded)
    /\ Rename(cur.path)
    /\ pc' = "extract"
    /\ UNCHANGED <<outerVars, extracted, loopVars, n_requests, range_hdr, last_status,
                   localVars, progress, reported, outcome>>

(* ------------------------ _handle_extraction() ------------------------- *)

\* zipfile.ZipFile can read a file that ends with the whole archive
ZipReadable(content) ==
    /\ Len(content) >= SrcLen
    /\ Drop(content, Len(content) - SrcLen) = Source

\* the test as `if not extract`: the file's suffix is not looked at
SkipsExtraction_IgnoresSuffix(p, extract) == ~extract

\* `if not extract or not file_path.suffix.lower() == ".zip"` (line 188)
SkipsExtraction(p, extract) == ~extract \/ ~IsZip(p)

\* return file_path (line 189)
NoExtraction ==
    /\ pc = "extract"
    /\ SkipsExtraction(cur.path, cur.extract)
    /\ ReturnPath(<<"file", cur.path>>)
    /\ UNCHANGED <<outerVars, fsVars, n_requests, range_hdr, last_status, progress, reported>>

\* zf.extractall(extract_dir); return extract_dir (lines 191-199)
Extract ==
    /\ pc = "extract"
    /\ ~SkipsExtraction(cur.path, cur.extract)
    /\ ZipReadable(dest[cur.path])
    /\ extracted' = [extracted EXCEPT ![cur.path] = TRUE]
    /\ ReturnPath(<<"dir", cur.path>>)
    /\ UNCHANGED <<outerVars, part, dest, n_requests, range_hdr, last_status, progress, reported>>

\* zipfile.ZipFile raises BadZipFile (the file is no archive, or the server's
\* archive is corrupt); download() does not catch it
ExtractBadZip ==
    /\ pc = "extract"
    /\ ~SkipsExtraction(cur.path, cur.extract)
    /\ Propagate("BadZipFile", "")
    /\ UNCHANGED <<outerVars, fsVars, n_requests, range_hdr, last_status, progress, reported>>

\* extractall raises OSError (permissions, full disk), which download() catches
ExtractIOError ==
    /\ pc = "extract"
    /\ ~SkipsExtraction(cur.path, cur.extract)
    /\ CatchAndRetry("IOError")
    /\ UNCHANGED <<outerVars, fsVars, n_requests, range_hdr, last_status>>

(* -------------------------- download_batch() --------------------------- *)

\* the sizes the catalog gives for the items of a batch: none, or the file's
BatchSizes == {0, SrcLen}

\* download_batch(downloads, output_dir, extract, delay, on_file_complete):
\* entry, up to the loop (lines 221-225); item k is saved as destination k
DownloadBatch(callback_kinds) ==
    /\ pc = "idle"
    /\ total' \in 1..MaxItems
    /\ extract_all' \in BOOLEAN
    /\ delay' \in {0, 1}
    /\ on_file_complete' \in callback_kinds
    /\ idx' = 0
    /\ results' = <<>>
    /\ item_log' = <<>>
    /\ callbacks' = <<>>
    /\ batch_sleeps' = 0
    /\ pc' = "batch_loop"
    /\ UNCHANGED <<cfgVars, fsVars, calls, cur, loopVars, n_requests, range_hdr, last_status,
                   localVars, progress, reported, outcome>>

\* a caller invokes download_batch without a callback or with one that returns
CallDownloadBatch ==
    /\ pc = "idle"
    /\ DownloadBatch({"none", "returns"})

\* a caller invokes download_batch with a callback that raises DownloadError
CallDownloadBatchRaising ==
    /\ pc = "idle"
    /\ DownloadBatch({"raises"})

\* the loop body up to the call of self.download (lines 227-243); the item's
\* size is read here
BatchNextItem ==
    /\ pc = "batch_loop"
    /\ idx < total
    /\ calls' = calls + 1
    /\ \E size \in BatchSizes : Download(idx + 1, size, extract_all)
    /\ UNCHANGED batchVars

\* download() has returned to download_batch: its frame is gone, and the
\* per-call counters start again
LeaveDownload ==
    /\ attempt' = 0
    /\ last_error' = None
    /\ io_failed' = FALSE
    /\ sleeps' = <<>>
    /\ n_requests' = 0
    /\ range_hdr' = NoRange
    /\ last_status' = NoStatus
    /\ progress' = NoProgress
    /\ reported' = NoCount
    /\ outcome' = NoOutcome
    /\ cur' = NoCall
    /\ item_log' = Append(item_log, [kind |-> outcome.kind, why |-> outcome.why,
                                     path |-> outcome.path])
    /\ UNCHANGED <<cfgVars, fsVars, calls, localVars, total, extract_all, delay,
                   on_file_complete>>

\* the test as `if delay > 0`: the last item is followed by a wait too
BatchSleepsAfter_AlsoLast(i) ==
    IF delay > 0 THEN batch_sleeps + 1 ELSE batch_sleeps

\* `if i < total - 1 and delay > 0: time.sleep(delay)` (lines 255-256)
BatchSleepsAfter(i) ==
    IF i < total - 1 /\ delay > 0 THEN batch_sleeps + 1 ELSE batch_sleeps

\* results.insert(0, result_path) in place of results.append(result_path)
BatchItemDone_Prepend ==
    /\ pc = "done"
    /\ total > 0
    /\ outcome.kind = "ok"
    /\ results' = <<outcome.path>> \o results
    /\ callbacks' = IF on_file_complete = "none"
                    THEN callbacks
                    ELSE Append(callbacks, <<idx + 1, outcome.path>>)
    /\ batch_sleeps' = BatchSleepsAfter(idx)
    /\ idx' = idx + 1
    /\ pc' = "batch_loop"
    /\ LeaveDownload

\* download() returned: results.append(result_path), the callback, the delay
\* (lines 244-247, 255-256); a DownloadError raised by the callback is caught
\* by the except clause of the same try statement: results.append(None)
\* (lines 249-252)
BatchItemDone ==
    /\ pc = "done"
    /\ total > 0
    /\ outcome.kind = "ok"
    /\ results' = IF on_file_complete = "raises"
                  THEN results \o <<outcome.path, NoPath>>
                  ELSE Append(results, outcome.path)
    /\ callbacks' = IF on_file_complete = "none"
                    THEN callbacks
                    ELSE Append(callbacks, <<idx + 1, outcome.path>>)
    /\ batch_sleeps' = BatchSleepsAfter(idx)
    /\ idx' = idx + 1
    /\ pc' = "batch_loop"
    /\ LeaveDownload

\* the callback moved behind the try statement: it runs for failed items too
BatchItemFailed_CallsBack ==
    /\ pc = "done"
    /\ total > 0
    /\ outcome.kind = "DownloadError"
    /\ results' = Append(results, NoPath)
    /\ callbacks' = IF on_file_complete = "none"
                    THEN callbacks
                    ELSE Append(callbacks, <<idx + 1, NoPath>>)
    /\ batch_sleeps' = BatchSleepsAfter(idx)
    /\ idx' = idx + 1
    /\ pc' = "batch_loop"
    /\ LeaveDownload

\* the except clause without results.append(None)
BatchItemFailed_NoAppend ==
    /\ pc = "done"
    /\ total > 0
    /\ outcome.kind = "DownloadError"
    /\ results' = results
    /\ batch_sleeps' = BatchSleepsAfter(idx)
    /\ idx' = idx + 1
    /\ pc' = "batch_loop"
    /\ LeaveDownload
    /\ UNCHANGED callbacks

\* download() raised DownloadError: results.append(None), the delay
\* (lines 249-256)
BatchItemFailed ==
    /\ pc = "done"
    /\ total > 0
    /\ outcome.kind = "DownloadError"
    /\ results' = Append(results, NoPath)
    /\ batch_sleeps' = BatchSleepsAfter(idx)
    /\ idx' = idx + 1
    /\ pc' = "batch_loop"
    /\ LeaveDownload
    /\ UNCHANGED callbacks

\* download() raised something else: `except DownloadError` does not catch it
\* and it leaves download_batch
BatchItemRaises ==
    /\ pc = "done"
    /\ total > 0
    /\ outcome.kind \notin {"ok", "DownloadError"}
    /\ pc' = "batch_raised"
    /\ LeaveDownload
    /\ UNCHANGED <<idx, results, callbacks, batch_sleeps>>

\* the loop is over: return results (line 258)
BatchReturn ==
    /\ pc = "batch_loop"
    /\ idx >= total
    /\ pc' = "batch_done"
    /\ UNCHANGED <<cfgVars, fsVars, calls, cur, loopVars, n_requests, range_hdr, last_status,
                   localVars, progress, reported, outcome, batchVars>>

\* the steps inside one download() call in which the local disk works
NetworkStep ==
    \/ RequestFails
    \/ ResponseRangeNotSatisfiable
    \/ ResponseErrorStatus
    \/ ResponseSuccess
    \/ ReadChunk
    \/ StreamError
    \/ StreamEndMismatch
    \/ StreamEndRename
    \/ NoExtraction
    \/ Extract
    \/ ExtractBadZip
    \/ RaiseExhausted

\* the steps in which the local disk fails
DiskFailure ==
    \/ OpenFails
    \/ WriteFails
    \/ ExtractIOError

\* a caller of download(), calling it up to MaxCalls times for one destination
Next ==
    \/ CallDownload
    \/ CallDownloadAgain
    \/ NetworkStep
    \/ DiskFailure

Spec == Init /\ [][Next]_vars

\* a caller of download_batch(), on a disk that does not fail
NextBatch ==
    \/ CallDownloadBatch
    \/ BatchNextItem
    \/ BatchItemDone
    \/ BatchItemFailed
    \/ BatchItemRaises
    \/ BatchReturn
    \/ NetworkStep

SpecBatch == InitBatch /\ [][NextBatch]_vars

\* a caller of download_batch() whose callback raises DownloadError
NextBatchCallback ==
    \/ CallDownloadBatchRaising
    \/ BatchNextItem
    \/ BatchItemDone
    \/ BatchItemFailed
    \/ BatchItemRaises
    \/ BatchReturn
    \/ NetworkStep

SpecBatchCallback == InitBatch /\ [][NextBatchCallback]_vars

(* ----------------------------- format_size() --------------------------- *)

\* `size_bytes < 1024`, `size_bytes /= 1024` (lines 282, 284)
Base == 1024
\* the units of the loop (line 281) and the one of the final return (line 285)
Units == <<"B", "KB", "MB", "GB", "TB">>
TopUnit == "PB"

RECURSIVE Pow(_, _)
Pow(b, n) == IF n = 0 THEN 1 ELSE b * Pow(b, n - 1)

\* A size is kept as mant * Base^exp, exp possibly negative: what the float
\* size_bytes holds after its divisions by 1024, which are exact in binary
\* floating point.  The arguments are the integers mant * Base^exp with
\* these mantissas (below Base^2) and exp in 0..Len(Units).
Mantissas == {0, 1, 500, 1023, Base, 1075, 1076, 1280, 1536, 1792,
              100 * Base, Base * Base - 52, Base * Base - 51, Base * Base - 1}

\* size_bytes < 1024 (line 282)
BelowBase(v) == v.mant = 0 \/ (v.exp <= 0 /\ v.mant < Pow(Base, 1 - v.exp))

\* size_bytes /= 1024 (line 284)
Divided(v) == [mant |-> v.mant, exp |-> v.exp - 1]

\* f"{size_bytes:.1f}": the size in tenths, rounded to the nearest tenth,
\* a tie to the even one, as Python formats a float
Tenths(v) ==
    IF v.mant = 0 THEN 0
    ELSE IF v.exp >= 0 THEN 10 * v.mant * Pow(Base, v.exp)
    ELSE LET d == Pow(Base, 0 - v.exp)
             q == (10 * v.mant) \div d
             r == (10 * v.mant) % d
         IN IF 2 * r > d \/ (2 * r = d /\ q % 2 = 1) THEN q + 1 ELSE q

\* format_size(size_bytes) is called (line 279); the loop starts with "B"
CallFormatSize ==
    /\ fmt.pc = "idle"
    /\ \E m \in Mantissas, e \in 0..Len(Units) :
          fmt' = [pc |-> "loop", arg |-> [mant |-> m, exp |-> e],
                  size_bytes |-> [mant |-> m, exp |-> e], unit |-> 1,
                  result |-> NoResult]
    /\ UNCHANGED <<downloadVars, cat, flt, race>>

\* `if size_bytes < 1024: return f"{size_bytes:.1f} {unit}"` (lines 282-283)
FormatSizeReturn ==
    /\ fmt.pc = "loop"
    /\ fmt.unit <= Len(Units)
    /\ BelowBase(fmt.size_bytes)
    /\ fmt' = [fmt EXCEPT !.pc = "returned",
                          !.result = <<Tenths(fmt.size_bytes), Units[fmt.unit]>>]
    /\ UNCHANGED <<downloadVars, cat, flt, race>>

\* `size_bytes /= 1024` and the next unit (lines 281, 284)
FormatSizeDivide ==
    /\ fmt.pc = "loop"
    /\ fmt.unit <= Len(Units)
    /\ ~BelowBase(fmt.size_bytes)
    /\ fmt' = [fmt EXCEPT !.size_bytes = Divided(fmt.size_bytes),
                          !.unit = fmt.unit + 1]
    /\ UNCHANGED <<downloadVars, cat, flt, race>>

\* the loop is over: `return f"{size_bytes:.1f} PB"` (line 285)
FormatSizeTop ==
    /\ fmt.pc = "loop"
    /\ fmt.unit > Len(Units)
    /\ fmt' = [fmt EXCEPT !.pc = "returned",
                          !.result = <<Tenths(fmt.size_bytes), TopUnit>>]
    /\ UNCHANGED <<downloadVars, cat, flt, race>>

InitFormat == Constructed(MaxRetriesBound, SrcLen)

NextFormat ==
    \/ CallFormatSize
    \/ FormatSizeReturn
    \/ FormatSizeDivide
    \/ FormatSizeTop

\* one call of format_size
SpecFormat == InitFormat /\ [][NextFormat]_vars

(* ---------------------------- CatalogManager ---------------------------- *)
\* Data are the versions of the server's CSV files: <<v>> is version v of one
\* file, and what get_models builds from version v of the projects and
\* version w of the file sizes is <<v, w>>.

\* _is_cache_valid(name) (catalog.py, lines 66-83)
IsCacheValid(disk, r, now) == disk[r] # NoCache /\ now - disk[r].time < CacheTtl

\* _fetch_csv(url, name, force_refresh) (catalog.py, lines 103-131); ok tells
\* whether the request, if one is made, succeeds
FetchCsv(disk, r, force, ok) ==
    IF ~force /\ IsCacheValid(disk, r, cat.now)
    THEN [disk |-> disk, data |-> disk[r].data, fetched |-> {}, raised |-> FALSE]
    ELSE IF ok
    THEN [disk |-> [disk EXCEPT ![r] = [data |-> <<cat.server>>, time |-> cat.now]],
          data |-> <<cat.server>>, fetched |-> {r}, raised |-> FALSE]
    ELSE [disk |-> disk, data |-> NoData, fetched |-> {r}, raised |-> TRUE]

\* the in-memory flag with force_refresh taken the wrong way round
HeldInMemory_FlagInverted(mem, r, force) == mem[r] # NoData /\ force

\* `if self._file_sizes is not None and not force_refresh` (catalog.py,
\* lines 191, 364)
HeldInMemory(mem, r, force) == mem[r] # NoData /\ ~force

\* get_file_sizes(force_refresh) (catalog.py, lines 355-377)
GetFileSizes(mem, disk, force, ok) ==
    IF HeldInMemory(mem, "file_sizes", force)
    THEN [mem |-> mem, disk |-> disk, data |-> mem["file_sizes"], fetched |-> {},
          raised |-> FALSE]
    ELSE LET f == FetchCsv(disk, "file_sizes", force, ok)
         IN [mem |-> IF f.raised THEN mem ELSE [mem EXCEPT !["file_sizes"] = f.data],
             disk |-> f.disk, data |-> f.data, fetched |-> f.fetched,
             raised |-> f.raised]

\* get_models(force_refresh) (catalog.py, lines 182-242)
GetModels(mem, disk, force, ok1, ok2) ==
    IF HeldInMemory(mem, "projects", force)
    THEN [mem |-> mem, disk |-> disk, data |-> mem["projects"], fetched |-> {},
          raised |-> FALSE]
    ELSE LET f == FetchCsv(disk, "projects", force, ok1)
             g == GetFileSizes(mem, f.disk, force, ok2)
         IN IF f.raised
            THEN [mem |-> mem, disk |-> f.disk, data |-> NoData,
                  fetched |-> f.fetched, raised |-> TRUE]
            ELSE IF g.raised
            THEN [mem |-> g.mem, disk |-> g.disk, data |-> NoData,
                  fetched |-> f.fetched \cup g.fetched, raised |-> TRUE]
            ELSE [mem |-> [g.mem EXCEPT !["projects"] = f.data \o g.data],
                  disk |-> g.disk, data |-> f.data \o g.data,
                  fetched |-> f.fetched \cup g.fetched, raised |-> FALSE]

\* a get_* call has returned or raised: what it leaves behind
AfterGet(name, force, res) ==
    /\ cat' = [cat EXCEPT !.mem = res.mem, !.disk = res.disk, !.gets = @ + 1,
                          !.requests = @ + Cardinality(res.fetched),
                          !.last = [name |-> name, force |-> force,
                                    fetched |-> res.fetched, raised |-> res.raised,
                                    ret |-> res.data]]
    /\ UNCHANGED <<downloadVars, fmt, flt, race>>

\* a caller invokes get_file_sizes(force_refresh=force)
CallGetFileSizes ==
    /\ cat.gets < MaxGets
    /\ \E force \in BOOLEAN, ok \in BOOLEAN :
          AfterGet("file_sizes", force, GetFileSizes(cat.mem, cat.disk, force, ok))

\* a caller invokes get_models(force_refresh=force)
CallGetModels ==
    /\ cat.gets < MaxGets
    /\ \E force \in BOOLEAN, ok1 \in BOOLEAN, ok2 \in BOOLEAN :
          AfterGet("projects", force, GetModels(cat.mem, cat.disk, force, ok1, ok2))

\* a new CatalogManager on the same cache directory (catalog.py, lines 43-56)
NewCatalogManager ==
    /\ cat.mem # NewCatalog.mem
    /\ cat' = [cat EXCEPT !.mem = NewCatalog.mem]
    /\ UNCHANGED <<downloadVars, fmt, flt, race>>

\* time passes
Tick ==
    /\ cat.now < MaxClock
    /\ cat' = [cat EXCEPT !.now = @ + 1]
    /\ UNCHANGED <<downloadVars, fmt, flt, race>>

\* the server publishes new catalog data
ServerChanges ==
    /\ cat.server < MaxVersion
    /\ cat' = [cat EXCEPT !.server = @ + 1]
    /\ UNCHANGED <<downloadVars, fmt, flt, race>>

InitCatalog == Constructed(MaxRetriesBound, SrcLen)

NextCatalog ==
    \/ CallGetFileSizes
    \/ CallGetModels
    \/ NewCatalogManager
    \/ Tick
    \/ ServerChanges

SpecCatalog == InitCatalog /\ [][NextCatalog]_vars

(* ----------------------------- filter_models() -------------------------- *)
\* Strings are sequences of characters.

\* the species values of the catalog ("Human", "Animal")
Human == <<"H", "u", "m", "a", "n">>
Animal == <<"A", "n", "i", "m", "a", "l">>
\* the species codes (constants.py, lines 69-72)
CodeH == <<"H">>
CodeA == <<"A">>

\* str.lower(), on the characters that occur
LowerChar(c) == CASE c = "H" -> "h" [] c = "A" -> "a" [] OTHER -> c
Lower(str) == [k \in 1..Len(str) |-> LowerChar(str[k])]

\* `pattern in value` on strings: pattern is a substring of value
Contains(value, pattern) ==
    \E k \in 0..(Len(value) - Len(pattern)) :
        SubSeq(value, k + 1, k + Len(pattern)) = pattern

\* species_map.get(x, x) (filters.py, lines 192-200)
SpeciesMapGet(x) ==
    IF x = Lower(CodeH) THEN Lower(Human)
    ELSE IF x = Lower(CodeA) THEN Lower(Animal)
    ELSE x

\* _match_species(value, pattern) (filters.py, lines 180-203)
MatchSpecies(value, pattern) ==
    IF value = <<>> \/ pattern = <<>> THEN FALSE
    ELSE IF Contains(Lower(value), Lower(pattern)) THEN TRUE
    ELSE SpeciesMapGet(Lower(pattern)) = SpeciesMapGet(Lower(value))

\* the lists of at most n models, a model being its species
RECURSIVE ModelLists(_)
ModelLists(n) ==
    IF n = 0 THEN {<<>>}
    ELSE LET shorter == ModelLists(n - 1)
         IN shorter \cup {Append(l, sp) : l \in shorter, sp \in {Human, Animal}}

\* filter_models(models, species=species) is called (filters.py, lines 8-54)
CallFilterModels ==
    /\ flt.pc = "idle"
    /\ \E models \in ModelLists(MaxModels),
          species \in {CodeH, CodeA, Lower(CodeH), Lower(CodeA), Human, Animal} :
          flt' = [pc |-> "species", models |-> models, species |-> species,
                  rest |-> models, result |-> <<>>]
    /\ UNCHANGED <<downloadVars, fmt, cat, race>>

\* `[m for m in result if _match_species(m.species, species)]`: the next
\* model is kept or dropped (filters.py, lines 59-60)
FilterNextModel ==
    /\ flt.pc = "species"
    /\ flt.rest # <<>>
    /\ flt' = [flt EXCEPT !.rest = Tail(flt.rest),
                          !.result = IF MatchSpecies(Head(flt.rest), flt.species)
                                     THEN Append(flt.result, Head(flt.rest))
                                     ELSE flt.result]
    /\ UNCHANGED <<downloadVars, fmt, cat, race>>

\* no other criterion is given: return result
FilterReturn ==
    /\ flt.pc = "species"
    /\ flt.rest = <<>>
    /\ flt' = [flt EXCEPT !.pc = "returned"]
    /\ UNCHANGED <<downloadVars, fmt, cat, race>>

InitFilter == Constructed(MaxRetriesBound, SrcLen)

NextFilter ==
    \/ CallFilterModels
    \/ FilterNextModel
    \/ FilterReturn

\* one call of filter_models with a species
SpecFilter == InitFilter /\ [][NextFilter]_vars

(* ------------------- two concurrent calls of download() ---------------- *)
\* Two threads call download() of one manager, without expected_size and
\* with extract=False, against a server that honours Range and does not
\* fail. Each step is one system call or one request of one thread. A file
\* is an inode: a descriptor opened on it stays on it when the name is
\* renamed, "wb" writes at the descriptor's own offset, "ab" at the end.

\* the temp file of destination 1, used for every destination
TempPath_Shared(p) == 1

\* temp_path = output_path.with_suffix(output_path.suffix + ".part") (line 110)
TempPath(p) == p

\* the server's answer to a request with Range offset hdr
HonestResponse(hdr) ==
    IF hdr = NoRange THEN [status |-> 200, body |-> Source]
    ELSE IF hdr < SrcLen THEN [status |-> 206, body |-> Drop(Source, hdr)]
    ELSE [status |-> 416, body |-> <<>>]

\* write(2) of chunk at offset off: a gap left by a truncation reads as zeros
WriteAt(content, off, chunk) ==
    LET last == IF Len(content) > off + Len(chunk) THEN Len(content)
                ELSE off + Len(chunk)
    IN [k \in 1..last |->
           IF k > off /\ k <= off + Len(chunk) THEN chunk[k - off]
           ELSE IF k <= Len(content) THEN content[k]
           ELSE 0]

\* the attempt of a thread ends in an exception that download() catches
\* (lines 90-93): the locals are gone, the next iteration follows
ThreadFailed(me, e) ==
    [NoThread EXCEPT !.pc = "loop", !.path = me.path, !.attempt = me.attempt + 1,
                     !.last_error = e]

\* the content a destination name stands for
DestContent(p) == IF race.dest[p] = 0 THEN NoFile ELSE race.files[race.dest[p]]

\* both threads call download(): for one destination, or for two
CallDownloadConcurrently ==
    /\ \A t \in Threads : race.th[t].pc = "idle"
    /\ \E other \in {1, 2} :
          race' = [race EXCEPT !.th = [t \in Threads |->
                      [NoThread EXCEPT !.pc = "loop",
                                       !.path = IF t = 1 THEN 1 ELSE other]]]
    /\ UNCHANGED <<downloadVars, fmt, cat, flt>>

\* the loop is exhausted: raise DownloadError (lines 95-97)
ThreadRaiseExhausted ==
    /\ \E t \in Threads :
          LET me == race.th[t]
          IN /\ me.pc = "loop"
             /\ me.attempt >= max_retries
             /\ race' = [race EXCEPT !.th[t].pc = "raised"]
    /\ UNCHANGED <<downloadVars, fmt, cat, flt>>

\* `if temp_path.exists():` (line 114)
ThreadTempExists ==
    /\ \E t \in Threads :
          LET me == race.th[t]
          IN /\ me.pc = "loop"
             /\ me.attempt < max_retries
             /\ race' = [race EXCEPT !.th[t].pc =
                            IF race.part[TempPath(me.path)] # 0 THEN "stat"
                            ELSE "request"]
    /\ UNCHANGED <<downloadVars, fmt, cat, flt>>

\* resume_pos = temp_path.stat().st_size and the Range header (lines 115-116);
\* stat raises FileNotFoundError, an OSError, when the name is gone
ThreadStat ==
    /\ \E t \in Threads :
          LET me == race.th[t]
              ino == race.part[TempPath(me.path)]
          IN /\ me.pc = "stat"
             /\ race' = [race EXCEPT !.th[t] =
                            IF ino = 0 THEN ThreadFailed(me, "FileNotFoundError")
                            ELSE [me EXCEPT !.pc = "request", !.ranged = TRUE,
                                            !.resume_pos = Len(race.files[ino])]]
    /\ UNCHANGED <<downloadVars, fmt, cat, flt>>

\* requests.get and the look at the status (lines 118-159): 416 with the
\* temp file there goes on to the rename, 416 without it raises HTTPError,
\* 200 and 206 set mode and bytes_downloaded
ThreadRequest ==
    /\ \E t \in Threads :
          LET me == race.th[t]
              r == HonestResponse(IF me.ranged THEN me.resume_pos ELSE NoRange)
          IN /\ me.pc = "request"
             /\ race' = [race EXCEPT !.th[t] =
                            IF r.status = 416
                            THEN IF race.part[TempPath(me.path)] # 0
                                 THEN [me EXCEPT !.pc = "rename"]
                                 ELSE ThreadFailed(me, "RequestException")
                            ELSE [me EXCEPT !.pc = "open", !.stream = r.body,
                                            !.mode = IF me.resume_pos > 0 THEN "ab"
                                                     ELSE "wb",
                                            !.bytes_downloaded = me.resume_pos]]
    /\ UNCHANGED <<downloadVars, fmt, cat, flt>>

\* open(temp_path, mode) (line 159): the file is created when the name does
\* not exist, and truncated by "wb" when it does
ThreadOpen ==
    /\ \E t \in Threads :
          LET me == race.th[t]
              tmp == TempPath(me.path)
              ino == race.part[tmp]
              new == Len(race.files) + 1
          IN /\ me.pc = "open"
             /\ race' = IF ino = 0
                        THEN [race EXCEPT !.files = Append(@, <<>>),
                                          !.part[tmp] = new,
                                          !.th[t].fd = new,
                                          !.th[t].pc = "stream"]
                        ELSE [race EXCEPT !.files[ino] = IF me.mode = "wb" THEN <<>>
                                                         ELSE @,
                                          !.th[t].fd = ino,
                                          !.th[t].pc = "stream"]
    /\ UNCHANGED <<downloadVars, fmt, cat, flt>>

\* f.write(chunk); bytes_downloaded += len(chunk) (lines 160-163)
ThreadWrite ==
    /\ \E t \in Threads :
          LET me == race.th[t]
              chunk == Take(me.stream, chunk_size)
          IN /\ me.pc = "stream"
             /\ me.stream # <<>>
             /\ race' = [race EXCEPT
                            !.files[me.fd] = IF me.mode = "ab" THEN @ \o chunk
                                             ELSE WriteAt(@, me.off, chunk),
                            !.th[t].off = @ + Len(chunk),
                            !.th[t].bytes_downloaded = @ + Len(chunk),
                            !.th[t].stream = Drop(me.stream, chunk_size)]
    /\ UNCHANGED <<downloadVars, fmt, cat, flt>>

\* the stream has ended: the file is closed; no expected_size, no size check
\* (lines 171-179)
ThreadStreamEnd ==
    /\ \E t \in Threads :
          LET me == race.th[t]
          IN /\ me.pc = "stream"
             /\ me.stream = <<>>
             /\ race' = [race EXCEPT !.th[t].fd = 0, !.th[t].pc = "rename"]
    /\ UNCHANGED <<downloadVars, fmt, cat, flt>>

\* temp_path.rename(output_path) and, extract being False, return file_path
\* (lines 129-130, 182-184, 188-189); rename raises FileNotFoundError when
\* the temp name is gone
ThreadRename ==
    /\ \E t \in Threads :
          LET me == race.th[t]
              tmp == TempPath(me.path)
          IN /\ me.pc = "rename"
             /\ race' = IF race.part[tmp] = 0
                        THEN [race EXCEPT !.th[t] = ThreadFailed(me, "FileNotFoundError")]
                        ELSE [race EXCEPT !.dest[me.path] = race.part[tmp],
                                          !.part[tmp] = 0,
                                          !.th[t].pc = "returned"]
    /\ UNCHANGED <<downloadVars, fmt, cat, flt>>

\* a manager with max_retries >= 1 and chunks of one byte
InitRace == \E retries \in 1..RaceRetries : Constructed(retries, 1)

NextRace ==
    \/ CallDownloadConcurrently
    \/ ThreadRaiseExhausted
    \/ ThreadTempExists
    \/ ThreadStat
    \/ ThreadRequest
    \/ ThreadOpen
    \/ ThreadWrite
    \/ ThreadStreamEnd
    \/ ThreadRename

\* two threads, each calling download() once
SpecRace == InitRace /\ [][NextRace]_vars

(* ------------------------------ properties ----------------------------- *)

\* the outcome of a download() call whose loop ran out
Exhausted(last) ==
    [kind |-> "DownloadError", why |-> "exhausted", url |-> cur.path,
     attempts |-> max_retries, last |-> last, path |-> NoPath]

\* C1: a download() call never issues more than max_retries requests, and
\* when every attempt has failed with a transport error or a non-success
\* status (max_retries >= 1), it has issued exactly max_retries requests and
\* ends in a DownloadError that carries the URL, the attempt count and the
\* last underlying error.
C1_ExhaustedAfterMaxRetries ==
    /\ n_requests <= max_retries
    /\ (pc = "done" /\ max_retries >= 1 /\ attempt = n_requests /\ ~io_failed)
          => /\ n_requests = max_retries
             /\ outcome = Exhausted("RequestException")

\* three requests were made, all failed on the network, DownloadError raised
C1_Witness ==
    /\ pc = "done"
    /\ outcome.why = "exhausted"
    /\ ~io_failed
    /\ max_retries = MaxRetriesBound
    /\ n_requests = MaxRetriesBound

\* C2: when the caller gave an expected size and the response stream ends
\* with bytes_downloaded different from it, the attempt ends in the
\* size-mismatch DownloadError, the destination is not touched, and the
\* partial file stays on disk holding the bytes received.
C2_SizeMismatchKeepsPartial ==
    [][(/\ pc = "stream"
        /\ pc' \notin {"stream", "loop"}
        /\ cur.expected_size # 0
        /\ bytes_downloaded # cur.expected_size)
       => /\ pc' = "done"
          /\ outcome'.kind = "DownloadError"
          /\ outcome'.why = "size_mismatch"
          /\ dest' = dest
          /\ part' = part
          /\ part[cur.path] # NoFile
          /\ Len(part[cur.path]) = bytes_downloaded]_vars

\* one byte of the two expected arrived, then the stream ended
C2_Witness ==
    /\ pc = "done"
    /\ outcome.why = "size_mismatch"
    /\ cur.expected_size = SrcLen
    /\ part[cur.path] = Take(Source, 1)
    /\ dest[cur.path] = NoFile

\* C3: an attempt that resumed from a partial file holding the first K bytes
\* of the N-byte source (0 < K < N), received the whole body of a success
\* response (206 or 200) and renamed the partial file leaves a destination
\* byte-identical to the source.
C3_ResumedTransferIsByteIdentical ==
    (/\ pc = "extract"
     /\ response.status \in {200, 206}
     /\ resume_pos \in 1..(SrcLen - 1)
     /\ Take(dest[cur.path], resume_pos) = Take(Source, resume_pos)
     /\ stream = <<>>)
    => dest[cur.path] = Source

\* C4: whenever download() succeeds for a request with a caller-supplied
\* expected size, the destination's length equals that size.
C4_SuccessMeansExpectedLength ==
    (pc = "done" /\ outcome.kind = "ok" /\ cur.expected_size # 0)
    => Len(dest[cur.path]) = cur.expected_size

\* C5: when the caller gave no size and the server declared a content
\* length, a destination produced by the attempt has the server-derived
\* total length (declared length plus the resume offset for a 206): a body
\* that ends short of it produces no destination.
C5_ServerLengthIsVerified ==
    (/\ pc = "extract"
     /\ response.status \in {200, 206}
     /\ cur.expected_size = 0
     /\ response.content_length > 0)
    => Len(dest[cur.path]) = total_size

\* C6: in a batch, an item whose download() call exhausted its attempts
\* yields None at its own position, and the batch goes on: when the batch
\* has ended, the item after it has been attempted.
C6_FailedItemYieldsNoneAndBatchGoesOn ==
    \A i \in 1..Len(item_log) :
        item_log[i].why = "exhausted" =>
            /\ Len(results) >= i
            /\ results[i] = NoPath
            /\ (pc \in {"batch_done", "batch_raised"} /\ i < total)
                  => Len(item_log) > i

\* three items, the second exhausted its attempts: [path, None, path]
C6_Witness ==
    /\ pc = "batch_done"
    /\ total = 3
    /\ item_log[2].why = "exhausted"
    /\ results[1] # NoPath
    /\ results[2] = NoPath
    /\ results[3] # NoPath

\* C7: download_batch's result list is positional: while the loop runs it
\* has one slot per item dealt with, on return one slot per request, and
\* slot i holds the outcome of request i: the path download() returned for
\* destination i, or None when it raised DownloadError.
C7_ResultsArePositional ==
    /\ pc = "batch_loop" => Len(results) = idx
    /\ pc = "batch_done" =>
          /\ Len(results) = total
          /\ Len(item_log) = total
          /\ \A i \in 1..total :
                /\ results[i] = IF item_log[i].kind = "ok"
                                THEN item_log[i].path
                                ELSE NoPath
                /\ results[i] # NoPath => results[i][2] = i

\* three items, the first and the last failed: [None, path, None]
C7_Witness ==
    /\ pc = "batch_done"
    /\ total = 3
    /\ results[1] = NoPath
    /\ results[2] = <<"file", 2>>
    /\ results[3] = NoPath

\* C8: download_batch never fails as a whole: no exception of an item's
\* download() call leaves it.
C8_BatchNeverFailsAsAWhole == pc # "batch_raised"

\* C9 as stated: a size mismatch is retried like a transport failure, so a
\* call that ends on a size mismatch has made max_retries attempts.
C9_SizeMismatchIsRetried ==
    (pc = "done" /\ outcome.why = "size_mismatch") => n_requests = max_retries

\* C9: a size mismatch is never caught by download()'s except clause: the
\* DownloadError of the attempt ends the call at once, with no wait and no
\* further attempt after it, and the partial file stays with its mismatching
\* length.
C9_SizeMismatchIsTerminal ==
    /\ last_error \in {None, "RequestException", "IOError"}
    /\ outcome.why = "size_mismatch" =>
          /\ pc = "done"
          /\ outcome.kind = "DownloadError"
          /\ n_requests = attempt + 1
          /\ Len(sleeps) = attempt
          /\ part[cur.path] # NoFile
          /\ SizeMismatch(cur.expected_size, Len(part[cur.path]))

\* max_retries is 3, the first attempt's size mismatch ended the call
C9_Witness ==
    /\ pc = "done"
    /\ outcome.why = "size_mismatch"
    /\ max_retries = 3
    /\ n_requests = 1
    /\ sleeps = <<>>

\* C10 as stated: after an attempt's IOError download() neither waits nor
\* makes a further attempt.
C10_IOErrorNotRetried ==
    last_error = "IOError" => (n_requests = attempt /\ Len(sleeps) < attempt)

\* C10: a local I/O failure of an attempt is retried like a transport
\* failure: no IOError leaves download(); in a call with an IOError every
\* failed attempt but the max_retries-th was followed by a wait, and when
\* the attempts run out the call has made max_retries requests and raises
\* the DownloadError of the exhausted loop.
C10_IOErrorIsRetried ==
    /\ outcome.kind # "IOError"
    /\ io_failed =>
          /\ Len(sleeps) = Min(attempt, max_retries - 1)
          /\ (pc = "done" /\ attempt = n_requests)
                => (n_requests = max_retries /\ outcome = Exhausted(last_error))

\* the first attempt ended in an IOError, download() waited and the second
\* attempt is receiving its body
C10_Witness ==
    /\ pc = "stream"
    /\ last_error = "IOError"
    /\ n_requests = 2
    /\ sleeps = <<1>>

\* C11: every failure of a download() call reaches the caller as a
\* DownloadError: a call ends by returning a path or by raising DownloadError
\* and in no other way.
C11_OnlyDownloadErrorEscapes == outcome.kind \in {None, "ok", "DownloadError"}

\* C12: download() stops at the first successful attempt: once an attempt
\* has succeeded the call has ended, exactly one request was issued beyond
\* those of the failed attempts before it, the destination file exists, and
\* without extraction the destination path is what the call returns.
C12_StopsAtFirstSuccess ==
    outcome.kind = "ok" =>
        /\ pc = "done"
        /\ n_requests = attempt + 1
        /\ dest[cur.path] # NoFile
        /\ ~cur.extract => outcome.path = <<"file", cur.path>>

\* two transport failures, then the third request succeeds
C12_Witness ==
    /\ pc = "done"
    /\ outcome.kind = "ok"
    /\ outcome.path = <<"file", cur.path>>
    /\ attempt = 2
    /\ n_requests = 3
    /\ ~io_failed
    /\ dest[cur.path] = Source

\* C13: every request of download(), the first of a call as well as each
\* retry, made while the partial file holds K > 0 bytes carries a Range
\* header that starts at K, the length the partial file has at that moment.
C13_RangeStartsAtPartialLength ==
    [][(/\ n_requests' = n_requests + 1
        /\ part[cur.path] # NoFile
        /\ Len(part[cur.path]) > 0)
       => range_hdr' = Len(part[cur.path])]_vars

\* the second attempt of a call asks for the bytes from offset 1 on, the
\* first attempt having left one byte in the partial file
C13_Witness ==
    /\ pc = "stream"
    /\ n_requests = 2
    /\ calls = 1
    /\ range_hdr = 1
    /\ response.status = 206
    /\ part[cur.path] = Take(Source, 1)

\* C14: when a download() call succeeds and on_progress was called during
\* it, the destination's length equals the first argument of the last
\* on_progress call, the cumulative byte count, which for a resumed
\* transfer counts from the resume offset.
C14_LengthEqualsLastReportedCount ==
    (pc = "done" /\ outcome.kind = "ok" /\ reported # NoCount)
    => Len(dest[cur.path]) = reported

\* a call that resumed from one byte and received the other: 2 was reported
C14_Witness ==
    /\ pc = "done"
    /\ outcome.kind = "ok"
    /\ calls = 2
    /\ n_requests = 1
    /\ range_hdr = 1
    /\ reported = SrcLen
    /\ dest[cur.path] = Source

\* C15: when post-processing returns, then with the extract flag unset or a
\* file name without the archive extension it returns the file path and
\* changes nothing on disk; otherwise it has unpacked the archive into the
\* directory named by the file path without its extension, returns that
\* directory and leaves the file in place.
C15_ExtractionOnlyOfArchivesOnRequest ==
    [][(pc = "extract" /\ outcome'.kind = "ok")
       => IF ~cur.extract \/ ~IsZip(cur.path)
          THEN /\ outcome'.path = <<"file", cur.path>>
               /\ UNCHANGED <<part, dest, extracted>>
          ELSE /\ outcome'.path = <<"dir", cur.path>>
               /\ extracted'[cur.path]
               /\ \A q \in Paths \ {cur.path} : extracted'[q] = extracted[q]
               /\ UNCHANGED <<part, dest>>]_vars

\* a batch with extraction: the archive a.zip was unpacked into its
\* directory, the file b.pdf was returned as it is
C15_Witness ==
    /\ extract_all
    /\ Len(results) >= 2
    /\ results[1] = <<"dir", 1>>
    /\ results[2] = <<"file", 2>>
    /\ extracted[1]
    /\ ~extracted[2]
    /\ dest[1] = Source

\* C16: a failure to unpack the archive after a completed download is
\* terminal: the step in which post-processing fails ends the download()
\* call with the error, so no attempt follows it.
C16_UnpackFailureIsTerminal ==
    [][(pc = "extract" /\ outcome'.kind # "ok")
       => (pc' = "done" /\ outcome'.kind # None /\ attempt' = attempt)]_vars

\* C17: no step deletes or shortens a partial file: in every step a partial
\* file that exists either stays, keeping the bytes it has (it may gain
\* some), or is renamed to its destination by an attempt whose transfer
\* succeeded. A failed attempt, a final failure and the start of a later
\* call therefore leave at least the offset that was there.
C17_PartialOnlyGrowsOrIsRenamed ==
    [][\A p \in Paths :
          part[p] # NoFile =>
             \/ /\ part'[p] # NoFile
                /\ Len(part'[p]) >= Len(part[p])
                /\ Take(part'[p], Len(part[p])) = part[p]
             \/ /\ part'[p] = NoFile
                /\ dest'[p] = part[p]
                /\ pc' = "extract"]_vars

\* the first call failed for good and left one byte; the second call for
\* the same destination starts with that byte still in the partial file
C17_Witness ==
    /\ calls = 2
    /\ pc = "loop"
    /\ n_requests = 0
    /\ part[cur.path] = Take(Source, 1)
    /\ dest[cur.path] = NoFile

\* C18: with a positive delay download_batch has waited once after every
\* item dealt with except the last one, after failed items as after
\* successful ones: min(i, n - 1) waits after i of n items, n - 1 when it
\* returns; with a delay of 0 it does not wait.
C18_WaitsBetweenItems ==
    /\ (delay > 0 /\ total > 0) => batch_sleeps = Min(idx, total - 1)
    /\ (delay > 0 /\ pc = "batch_done") => batch_sleeps = total - 1
    /\ delay = 0 => batch_sleeps = 0

\* three items, the first and the second failed: two waits, none after the third
C18_Witness ==
    /\ pc = "batch_done"
    /\ total = 3
    /\ delay > 0
    /\ batch_sleeps = 2
    /\ results[1] = NoPath
    /\ results[2] = NoPath
    /\ results[3] # NoPath

\* C19: at every moment of a batch with a completion callback, the calls
\* of the callback made so far are, in order, one call for each item whose
\* result is a path, with the item and that path, and none for an item
\* whose result is None; the call for an item is there once the item's
\* result is, hence before the next item's download() starts.
C19_CallbackOncePerSuccessfulItem ==
    LET slots == [i \in 1..Len(results) |-> <<i, results[i]>>]
        IsPath(e) == e[2] # NoPath
    IN /\ on_file_complete = "returns" => callbacks = SelectSeq(slots, IsPath)
       /\ on_file_complete = "none" => callbacks = <<>>

\* three items with a callback, the second failed: the callback ran for
\* the first and the third
C19_Witness ==
    /\ pc = "batch_done"
    /\ total = 3
    /\ on_file_complete = "returns"
    /\ results[2] = NoPath
    /\ callbacks = << <<1, <<"file", 1>> >>, <<3, <<"file", 3>> >> >>

\* the index k of the unit whose range [Base^k, Base^(k+1)) holds the
\* argument mant * Base^exp (0 < mant < Base^2)
UnitRange(a) == a.exp + (IF a.mant < Base THEN 0 ELSE 1)

\* C20: format_size converts with base 1024 and one decimal place: a size
\* in [1024^k, 1024^(k+1)), k = 0..4, is rendered in the k-th unit of B, KB,
\* MB, GB, TB with a displayed number below 1024; a size of 1024^5 or more is
\* rendered in the top unit; 500 gives "500.0 B", 1024 "1.0 KB", 1024^3
\* "1.0 GB".
C20_FormatSizeUnitAndNumber ==
    (fmt.pc = "returned" /\ fmt.arg.mant > 0) =>
        /\ IF UnitRange(fmt.arg) < Len(Units)
           THEN /\ fmt.result[2] = Units[UnitRange(fmt.arg) + 1]
                /\ fmt.result[1] < 10 * Base
           ELSE fmt.result[2] = TopUnit
        /\ fmt.arg = [mant |-> 500, exp |-> 0] => fmt.result = <<5000, "B">>
        /\ fmt.arg = [mant |-> Base, exp |-> 0] => fmt.result = <<10, "KB">>
        /\ fmt.arg = [mant |-> Base, exp |-> 2] => fmt.result = <<10, "GB">>

\* C21: in every get_* call of a CatalogManager, a resource is requested
\* over HTTP only if force_refresh is set or the resource is neither held in
\* memory nor in a disk cache within its TTL; a call without force_refresh
\* for a resource held in memory (loaded before) issues no request, does not
\* fail and returns the data held, which are the data the loading call
\* returned; a call with force_refresh requests its resource anew.
C21_RequestsOnlyWhenNotCached ==
    [][cat'.gets = cat.gets + 1 =>
         LET l == cat'.last
         IN /\ \A q \in l.fetched :
                  l.force \/ (cat.mem[q] = NoData
                              /\ ~IsCacheValid(cat.disk, q, cat.now))
            /\ (cat.mem[l.name] # NoData /\ ~l.force)
                  => /\ l.fetched = {}
                     /\ ~l.raised
                     /\ l.ret = cat.mem[l.name]
                     /\ cat'.mem = cat.mem
            /\ l.force => l.name \in l.fetched
            /\ ~l.raised => cat'.mem[l.name] = l.ret
            /\ cat'.requests = cat.requests + Cardinality(l.fetched)]_vars

\* one request loaded the file sizes; the TTL has passed and the server has
\* new data, and a third call without force_refresh still issued no request
\* and returned the data of the first
C21_Witness ==
    /\ cat.gets = 3
    /\ cat.requests = 1
    /\ cat.last = [name |-> "file_sizes", force |-> FALSE, fetched |-> {},
                   raised |-> FALSE, ret |-> <<1>>]
    /\ cat.server = 2
    /\ cat.now - cat.disk["file_sizes"].time >= CacheTtl

\* the models of a list whose species is sp, in the list's order
OfSpecies(models, sp) ==
    LET Is(m) == m = sp
    IN SelectSeq(models, Is)

\* C22: filter_models with the species given as a code selects by species:
\* for a list of Human and Animal models, "H" returns exactly the Human ones
\* and "A" exactly the Animal ones.
C22_SpeciesCodeSelectsBySpecies ==
    flt.pc = "returned" =>
        /\ flt.species = CodeH => flt.result = OfSpecies(flt.models, Human)
        /\ flt.species = CodeA => flt.result = OfSpecies(flt.models, Animal)

\* C23: at every point of the attempts for a destination, the partial file
\* is no longer than the final expected size of the file (the caller's size
\* when it is the source's, or the server's total), whatever success status
\* and body a resumed request is answered with.
C23_PartialNeverExceedsExpectedSize ==
    cur.expected_size \in {0, Len(Source)} =>
        \A p \in Paths : part[p] # NoFile => Len(part[p]) <= Len(Source)

\* C24: an attempt whose request is answered with a non-success status
\* other than 416 fails (a RequestException, handled by the retry loop)
\* and leaves the partial file, the destination and the extracted
\* directory as they were.
C24_ErrorStatusLeavesFilesAlone ==
    [][(n_requests' = n_requests + 1 /\ last_status' >= 400 /\ last_status' # 416)
       => /\ UNCHANGED <<part, dest, extracted>>
          /\ last_error' = "RequestException"
          /\ pc' \in {"loop", "done"}
          /\ outcome'.kind \in {None, "DownloadError"}]_vars

\* an error status was answered to a request made while a partial file
\* was there, which is there still
C24_Witness ==
    /\ last_status = 500
    /\ last_error = "RequestException"
    /\ range_hdr = 1
    /\ part[cur.path] = Take(Source, 1)
    /\ dest[cur.path] = NoFile

\* C25 as stated: a resumed request answered with 416 has the partial file
\* renamed to the destination, nothing written, and the attempt, after its
\* post-processing, returns success without a further request.
C25_RangeNotSatisfiableEndsInSuccess ==
    [][/\ (n_requests' = n_requests + 1 /\ last_status' = 416)
          => /\ dest'[cur.path] = part[cur.path]
             /\ part'[cur.path] = NoFile
             /\ pc' = "extract"
       /\ (pc = "extract" /\ last_status = 416)
          => /\ n_requests' = n_requests
             /\ pc' = "done"
             /\ outcome'.kind = "ok"]_vars

\* C25: a resumed request answered with 416 has the partial file renamed to
\* the destination with nothing written, and post-processing follows at
\* once, without a further request: download() returns the path then,
\* unless an extraction that was asked for fails (BadZipFile leaves
\* download(), an I/O error counts as a failed attempt).
C25_RangeNotSatisfiablePromotes ==
    [][/\ (n_requests' = n_requests + 1 /\ last_status' = 416)
          => /\ range_hdr' # NoRange
             /\ dest'[cur.path] = part[cur.path]
             /\ part'[cur.path] = NoFile
             /\ extracted' = extracted
             /\ reported' = reported
             /\ pc' = "extract"
       /\ (pc = "extract" /\ last_status = 416)
          => /\ n_requests' = n_requests
             /\ part' = part /\ dest' = dest
             /\ \/ pc' = "done" /\ outcome'.kind = "ok"
                \/ /\ ~SkipsExtraction(cur.path, cur.extract)
                   /\ \/ outcome'.kind = "BadZipFile"
                      \/ attempt' = attempt + 1 /\ last_error' = "IOError"]_vars

\* a call has returned the extracted directory of a partial file promoted on 416
C25_Witness ==
    /\ last_status = 416
    /\ pc = "done"
    /\ outcome.kind = "ok"
    /\ n_requests = 2
    /\ part[cur.path] = NoFile
    /\ dest[cur.path] = Source
    /\ extracted[cur.path]

\* C26: the total length of an attempt, which is what the progress callback
\* is given, is the declared content length (plus the resume offset for a
\* 206) when the response declares one, else the caller's expected size,
\* else 0.
C26_TotalSizePrefersDeclaredLength ==
    pc = "stream" =>
        LET declared == response.content_length
            claimed == IF declared # 0
                       THEN declared + (IF response.status = 206 THEN resume_pos ELSE 0)
                       ELSE cur.expected_size
        IN /\ total_size = claimed
           /\ reported # NoCount => progress[2] = claimed

\* C27: download() has waited retry_delay * i after failed attempt i, for
\* each failed attempt i that another attempt follows, in that order, and
\* not after the last one: a call whose max_retries attempts have all
\* failed has waited max_retries - 1 times, retry_delay * 1, * 2, ...
C27_LinearBackoffBetweenAttempts ==
    LET waited == IF attempt < max_retries THEN attempt ELSE max_retries - 1
    IN /\ sleeps = [i \in 1..waited |-> i]
       /\ (pc = "done" /\ outcome.why = "exhausted" /\ max_retries >= 1)
             => Len(sleeps) = max_retries - 1

\* every attempt of a call has failed, with a wait before each but the first
C27_Witness ==
    /\ pc = "done"
    /\ outcome.why = "exhausted"
    /\ max_retries = MaxRetriesBound
    /\ attempt = MaxRetriesBound
    /\ Len(sleeps) = MaxRetriesBound - 1
    /\ sleeps[1] = 1
    /\ sleeps[Len(sleeps)] = MaxRetriesBound - 1

\* C30: with max_retries = 0, download() issues no request, creates or
\* changes no partial or destination file, and ends in the DownloadError
\* that reports 0 attempts and None as the underlying error.
C30_ZeroRetriesFailsAtOnce ==
    max_retries = 0 =>
        /\ n_requests = 0
        /\ last_status = NoStatus
        /\ \A p \in Paths : part[p] = NoFile /\ dest[p] = NoFile /\ ~extracted[p]
        /\ outcome.kind \in {None, "DownloadError"}
        /\ pc = "done" => outcome = [kind |-> "DownloadError", why |-> "exhausted",
                                     url |-> cur.path, attempts |-> 0,
                                     last |-> None, path |-> NoPath]

\* download() of a manager with max_retries = 0 has raised, a second time
C30_Witness ==
    /\ max_retries = 0
    /\ calls = 2
    /\ pc = "done"
    /\ outcome.kind = "DownloadError"
    /\ outcome.attempts = 0
    /\ outcome.last = None

\* C29: download_batch appends exactly one entry to the result list for
\* every item, whatever the completion callback does, raising a
\* DownloadError included: when i items have been processed the list has
\* length i.
C29_OneResultPerItem ==
    pc \in {"batch_loop", "batch_done"} => Len(results) = idx

\* C28: download() takes no lock on the destination. Two concurrent calls
\* for different destinations share no file: neither fails, and each
\* returns with its destination byte-identical to the source and its
\* partial file gone. (Two calls for one destination work on one partial
\* file; the state in which one of them has failed on the missing partial
\* file and the promoted destination differs from the source is C28_Witness.)
C28_DistinctDestinationsShareNoState ==
    race.th[1].path # race.th[2].path =>
        \A t \in Threads :
            LET me == race.th[t]
            IN /\ me.last_error = None
               /\ me.pc # "raised"
               /\ me.resume_pos = 0
               /\ me.pc = "returned" =>
                     /\ DestContent(me.path) = Source
                     /\ race.part[TempPath(me.path)] = 0

\* two calls for one destination: one has returned, the other has raised
\* after rename found no partial file, and the destination is not the source
C28_Witness ==
    /\ race.th[1].path = race.th[2].path
    /\ \E t, u \in Threads :
          /\ race.th[t].pc = "returned"
          /\ race.th[u].pc = "raised"
          /\ race.th[u].last_error = "FileNotFoundError"
    /\ DestContent(1) # NoFile
    /\ DestContent(1) # Source
====
